---- MODULE Spec2Model ----
(***************************************************************************)
(* CatClan Monitor: the balance snapshot store (utils/data_storage.py),    *)
(* the historical importer (import_historical_data.py), the exchange       *)
(* client (utils/binance_api.py) and the callbacks of the dashboard        *)
(* variants (app.py, app6.py).                                             *)
(*                                                                         *)
(* Time is counted in ticks, DayLen ticks to a calendar day.  `utc` is the *)
(* machine's UTC clock (what SQLite's 'now' reads); `offset` is the        *)
(* distance of the local wall clock from it (what Python's datetime.now()  *)
(* adds: time zone, daylight saving).                                      *)
(*                                                                         *)
(* Specifications:                                                         *)
(*   Spec      the store and the chart callbacks over time                 *)
(*   SpecImport the importer's two statements, failing or not, beside the  *)
(*             application's writes and reads                               *)
(*   SpecConc  save_balance step by step, connections writing and reading  *)
(*   SpecFail  the store's calls with the storage layer failing            *)
(*   SpecDash  app.py: a firing of the refresh interval and its callbacks  *)
(*   SpecApi   the exchange client's methods on what the exchange answers  *)
(*   SpecStore one BalanceStorage object: construction, calls, close()     *)
(*   SpecLife  the process: module import, the __main__ block, exit        *)
(*   SpecSort  app.py: the positions header's sort toggle                  *)
(*   SpecPage  app6.py: the chart callback with its period buttons         *)
(***************************************************************************)
EXTENDS Integers, Sequences, FiniteSets

\* ---- bounds of the model ----
MaxRows == 2
MaxTime == 5
DayLen == 2
MaxDays == 2
MaxCalls == 3
ShortPeriod == 1
LongPeriod == 2
MaxPositions == 2

\* ---- input sets ----
\* (spot_total, futures_total) as the callers pass them: the dashboards save
\* (0, futures_total), 0 when the exchange returned nothing; app_old1.index
\* saves a spot total too
SaveInputs == {<<0, 0>>, <<0, 1>>, <<1, 2>>}
TzOffsets == {-1, 0}
Lookbacks == 1..MaxDays
None == 0

\* the request-handling threads and processes that write to the store
Writers == {"w1", "w2"}
NoWriter == "none"

VARIABLES
    rows,       \* the balance_history table, in id order
    utc,        \* the machine's UTC clock, in ticks
    offset,     \* local wall clock minus utc, in ticks
    op,         \* the operation that ran last
    req,        \* its argument (lookback days, period_days, imported day)
    history,    \* what get_balance_history returned
    figure,     \* what the chart callback returned
    added,      \* what add_historical_data returned
    justSaved,  \* id of the row save_balance wrote at this instant, 0 if none
    pc,         \* per writer: where it is inside save_balance
    lock,       \* the writer holding the database write lock
    local,      \* per writer: the row it is inserting and the id it took
    calls,      \* number of save_balance calls issued by the writers
    reading,    \* per connection: the SELECT in progress and the rows it has read
    importer,   \* the importer's call between its SELECT and its INSERT
    raised,     \* the exception the last call let through to its caller, "" if none
    logged,     \* the message the last call wrote to the error log, "" if none
    cards,      \* what the data callback returned to the page
    pending,    \* the callbacks a firing of the refresh interval has queued
    response,   \* what the exchange answers to the client's API calls
    result,     \* what the exchange client's method returned
    conn,       \* the store's connection: "absent", "open" or "closed"
    opens,      \* number of connections sqlite3.connect has opened so far
    closes,     \* number of balance_storage.close() calls made so far
    main,       \* the program run and where it is in its module and __main__ block
    tables,     \* the tables of the database file
    sort_store, \* dcc.Store 'sort-store': the positions' sort field and order
    clicks,     \* n_clicks of the positions header, None before the first click
    selected,   \* the period button clicked last, "" if none was
    saves       \* the save_balance calls of the last get_futures_data, as argument pairs

storeVars == <<rows, utc, offset, op, req, history, figure, added, justSaved>>
concVars == <<pc, lock, local, calls, reading, importer>>
edgeVars == <<raised, logged, cards, pending, response, result>>
procVars == <<conn, opens, closes, main, tables>>
pageVars == <<sort_store, clicks, selected>>
appVars == <<procVars, pageVars, saves>>
vars == <<rows, utc, offset, op, req, history, figure, added, justSaved,
          pc, lock, local, calls, reading, importer,
          raised, logged, cards, pending, response, result,
          conn, opens, closes, main, tables, sort_store, clicks, selected, saves>>

\* ---- clocks and dates ----
\* Python datetime.now(): the local wall clock
datetime_now == utc + offset

\* SQLite date(timestamp): the calendar day of a stored timestamp
DateOf(ts) == ts \div DayLen

\* datetime(y, m, d) / pd.to_datetime(date): midnight of a calendar day
Midnight(day) == day * DayLen

\* the modifier's sign lost: N days after the clock
CutoffAhead(now, days) == now + days * DayLen

\* SQLite datetime('now', '-N days'): N days before the UTC clock
Cutoff(now, days) == now - days * DayLen

\* start_date = datetime(2025, 8, 1)
FloorDay == 1

\* the store is opened on the eve of the floor date
StartTime == FloorDay * DayLen - 1

\* get_balance_history(9999): the lookback the callers use for "all"
AllHistory == 9999

\* ---- the balance_history table ----
\* a writer that stores the futures balance as the total
NewRowFuturesOnly(ts, spot_total, futures_total) ==
    [timestamp |-> ts, spot_balance |-> spot_total,
     futures_balance |-> futures_total,
     total_balance |-> futures_total]

\* one row of balance_history; its id is its position in rows (AUTOINCREMENT)
NewRow(ts, spot_total, futures_total) ==
    [timestamp |-> ts, spot_balance |-> spot_total,
     futures_balance |-> futures_total,
     total_balance |-> spot_total + futures_total]

\* a writer that overwrites the stored row of the same calendar day
InsertOrReplace(tbl, row) ==
    IF \E i \in 1..Len(tbl) : DateOf(tbl[i].timestamp) = DateOf(row.timestamp)
    THEN [tbl EXCEPT ![CHOOSE i \in 1..Len(tbl) :
                          DateOf(tbl[i].timestamp) = DateOf(row.timestamp)] = row]
    ELSE Append(tbl, row)

\* INSERT INTO balance_history (...) VALUES (...): the only statement that
\* writes to the table; the new row takes the next id
Insert(tbl, row) == Append(tbl, row)

Ids(tbl) == 1..Len(tbl)

RECURSIVE IdSeq(_)
IdSeq(n) == IF n = 0 THEN <<>> ELSE Append(IdSeq(n - 1), n)

\* ---- sorting (stable, ascending by calendar day) ----
RECURSIVE InsertByDay(_, _, _)
InsertByDay(tbl, sorted, i) ==
    IF sorted = <<>> THEN <<i>>
    ELSE IF DateOf(tbl[sorted[Len(sorted)]].timestamp) <= DateOf(tbl[i].timestamp)
         THEN Append(sorted, i)
         ELSE Append(InsertByDay(tbl, SubSeq(sorted, 1, Len(sorted) - 1), i),
                     sorted[Len(sorted)])

RECURSIVE SortByDay(_, _)
SortByDay(tbl, ids) ==
    IF ids = <<>> THEN <<>>
    ELSE InsertByDay(tbl, SortByDay(tbl, SubSeq(ids, 1, Len(ids) - 1)), ids[Len(ids)])

FilterIds(ids, keep) ==
    LET Kept(i) == i \in keep
    IN  SelectSeq(ids, Kept)

Range(s) == {s[i] : i \in DOMAIN s}

\* ---- BalanceStorage.get_balance_history ----
\* the WHERE clause lost: every row qualifies
InWindowAll(tbl, now, days) == Ids(tbl)

\* WHERE timestamp >= datetime('now', '-N days')
InWindow(tbl, now, days) == {i \in Ids(tbl) : tbl[i].timestamp >= Cutoff(now, days)}

\* the ids of the rows of the result, in result order: ORDER BY date
HistoryIds(tbl, now, days) ==
    SortByDay(tbl, FilterIds(IdSeq(Len(tbl)), InWindow(tbl, now, days)))

\* SELECT date(timestamp) as date, spot_balance, futures_balance
HistoryRecord(r) ==
    [date |-> DateOf(r.timestamp), spot_balance |-> r.spot_balance,
     futures_balance |-> r.futures_balance]

get_balance_history(tbl, now, days) ==
    LET ids == HistoryIds(tbl, now, days)
    IN  [k \in 1..Len(ids) |-> HistoryRecord(tbl[ids[k]])]

\* ---- chart aggregation (app6.update_graph, app.update_graph_and_buttons) ----
MinOf(S) == CHOOSE x \in S : \A y \in S : x <= y
MaxOf(S) == CHOOSE x \in S : \A y \in S : x >= y

RECURSIVE SortedDays(_)
SortedDays(S) == IF S = {} THEN <<>> ELSE <<MinOf(S)>> \o SortedDays(S \ {MinOf(S)})

DayIds(tbl, ids, day) == FilterIds(ids, {i \in Range(ids) : DateOf(tbl[i].timestamp) = day})

\* the comparison made strict: the floor date itself is dropped
floor_filter_strict(tbl, ids) ==
    FilterIds(ids, {i \in Range(ids) : Midnight(DateOf(tbl[i].timestamp)) > Midnight(FloorDay)})

\* df = df[df['date'] >= start_date]
floor_filter(tbl, ids) ==
    FilterIds(ids, {i \in Range(ids) : Midnight(DateOf(tbl[i].timestamp)) >= Midnight(FloorDay)})

\* cutoff_date = datetime.now() - timedelta(days=period_days); df = df[df['date'] >= cutoff_date]
period_filter(tbl, ids, localnow, period_days) ==
    IF period_days = None THEN ids
    ELSE FilterIds(ids, {i \in Range(ids) :
             Midnight(DateOf(tbl[i].timestamp)) >= localnow - period_days * DayLen})

\* no filter: the zero snapshots stay in
zero_filter_none(tbl, ids) == ids

\* df_filtered = df[df['futures_balance'] > 0]; if df_filtered.empty: df_filtered = df
zero_filter(tbl, ids) ==
    LET positive == FilterIds(ids, {i \in Range(ids) : tbl[i].futures_balance > 0})
    IN  IF positive = <<>> THEN ids ELSE positive

GroupDays(tbl, ids) == SortedDays({DateOf(tbl[i].timestamp) : i \in Range(ids)})

\* app6: groupby('date_only').agg(min, max, first, last), then sort_values('date')
daily_stats(tbl, ids) ==
    LET days == GroupDays(tbl, ids)
    IN  [k \in 1..Len(days) |->
            LET g == DayIds(tbl, ids, days[k])
                vals == {tbl[i].futures_balance : i \in Range(g)}
            IN  [date_only |-> days[k], date |-> Midnight(days[k]),
                 min_balance |-> MinOf(vals), max_balance |-> MaxOf(vals),
                 open_balance |-> tbl[g[1]].futures_balance,
                 close_balance |-> tbl[g[Len(g)]].futures_balance]]

\* app: groupby('date_only').agg(min, max, last), then sort_values('date')
df_daily(tbl, ids) ==
    LET days == GroupDays(tbl, ids)
    IN  [k \in 1..Len(days) |->
            LET g == DayIds(tbl, ids, days[k])
                vals == {tbl[i].futures_balance : i \in Range(g)}
            IN  [date_only |-> days[k], date |-> Midnight(days[k]),
                 min_balance |-> MinOf(vals), max_balance |-> MaxOf(vals),
                 last_balance |-> tbl[g[Len(g)]].futures_balance]]

\* app6: the record that stands in for an empty daily_stats
SyntheticRecord(localnow) ==
    [date_only |-> DateOf(localnow), date |-> localnow,
     min_balance |-> 0, max_balance |-> 0, open_balance |-> 0, close_balance |-> 0]

\* app6.period_map and period_map.get(button_id, 30)
period_map6 == [b \in {"btn-30", "btn-90", "btn-all"} |->
                  IF b = "btn-30" THEN ShortPeriod ELSE IF b = "btn-90" THEN LongPeriod ELSE None]
Triggers6 == {"btn-30", "btn-all", "interval-component"}
PeriodOf6(button_id) ==
    IF button_id \in DOMAIN period_map6 THEN period_map6[button_id] ELSE ShortPeriod

\* app.period_map and period_map.get(button_id, 30); of the seven buttons the
\* model keeps a short period, the default period and "all"
period_map == [b \in {"btn-7d", "btn-1m", "btn-all"} |->
                 IF b = "btn-7d" THEN ShortPeriod ELSE IF b = "btn-1m" THEN LongPeriod ELSE None]
Triggers == {"btn-7d", "btn-all", "interval-component"}
PeriodOf(button_id) ==
    IF button_id \in DOMAIN period_map THEN period_map[button_id] ELSE LongPeriod

\* app.btn_classes: the class of each period button
btn_classes == [b \in DOMAIN period_map |-> "period-btn"]

\* app6: df = balance_storage.get_balance_history(period_days or 9999)
Fetch6(tbl, now, period_days) ==
    HistoryIds(tbl, now, IF period_days = None THEN AllHistory ELSE period_days)

\* app6: the rows that reach the grouping: the floor date, then sort_values('date')
Frame6(tbl, df) == SortByDay(tbl, floor_filter(tbl, df))

\* update_graph without the stand-in record for an empty daily_stats
update_graph6_no_fallback(tbl, now, localnow, period_days) ==
    LET df == Fetch6(tbl, now, period_days)
    IN  IF df = <<>> THEN [title |-> "No data", data |-> <<>>]
        ELSE [title |-> "Balance",
              data |-> daily_stats(tbl, zero_filter(tbl, Frame6(tbl, df)))]

\* app6.update_graph: the figure's title and the daily records it plots
update_graph6(tbl, now, localnow, period_days) ==
    LET df == Fetch6(tbl, now, period_days)
        stats == daily_stats(tbl, zero_filter(tbl, Frame6(tbl, df)))
    IN  IF df = <<>> THEN [title |-> "No data", data |-> <<>>]
        ELSE [title |-> "Balance",
              data |-> IF stats = <<>> THEN <<SyntheticRecord(localnow)>> ELSE stats]

\* app: the rows that reach the grouping: sort_values('date'), the floor date, the period
Frame(tbl, df, localnow, period_days) ==
    period_filter(tbl, floor_filter(tbl, SortByDay(tbl, df)), localnow, period_days)

\* app.update_graph_and_buttons: the figure's title and the daily records it plots
update_graph_and_buttons(tbl, now, localnow, period_days) ==
    LET df == HistoryIds(tbl, now, AllHistory)
        kept == Frame(tbl, df, localnow, period_days)
    IN  IF df = <<>> THEN [title |-> "No data", data |-> <<>>]
        ELSE IF kept = <<>> THEN [title |-> "No data", data |-> <<>>]
        ELSE [title |-> "Balance", data |-> df_daily(tbl, zero_filter(tbl, kept))]

\* ---- HistoricalDataImporter ----
\* import_historical_data.historical_data: (day, futures balance), from 01.08.2025 on
historical_data == << <<FloorDay, 1>>, <<FloorDay + 1, 2>> >>

\* SELECT 1 FROM balance_history WHERE date(timestamp) = date(?)
DateExists(tbl, date) == \E i \in Ids(tbl) : DateOf(tbl[i].timestamp) = DateOf(date)

\* ---- exceptions ----
\* what a call does: it raises an exception, or it returns a body
Raised(exc) == [error |-> exc, body |-> <<>>]
Returned(body) == [error |-> "", body |-> body]

\* the classes an except clause names, with their subclasses that occur here
SqliteErrors == {"sqlite3.OperationalError", "sqlite3.DatabaseError", "sqlite3.ProgrammingError"}
ParseErrors == {"ValueError", "KeyError"}
Exceptions == SqliteErrors \cup ParseErrors \cup
              {"pandas.errors.DatabaseError", "BinanceAPIException", "AttributeError", "OSError"}

\* a handler that names the parse errors only
try_except_narrow(outcome, caught, fallback) ==
    IF outcome.error \in caught \cap ParseErrors THEN Returned(fallback) ELSE outcome

\* try: ... except <caught>: return fallback
try_except(outcome, caught, fallback) ==
    IF outcome.error \in caught THEN Returned(fallback) ELSE outcome

\* ---- failures of the storage layer ----
NoFailure == ""
StorageFailures == {"lock timeout", "disk error", "corruption", "closed connection"}

\* the exception a statement on self.conn raises: the sqlite3 module's for a
\* failure of the storage layer or a missing table, AttributeError when the
\* object has no conn attribute
sqlite_error(failure) ==
    CASE failure = "lock timeout" -> "sqlite3.OperationalError"
      [] failure = "disk error" -> "sqlite3.OperationalError"
      [] failure = "corruption" -> "sqlite3.DatabaseError"
      [] failure = "closed connection" -> "sqlite3.ProgrammingError"
      [] failure = "no such table" -> "sqlite3.OperationalError"
      [] failure = "no connection" -> "AttributeError"

\* a failed INSERT that leaves its row behind
execute_insert_partial(tbl, row, failure) ==
    IF failure = NoFailure
    THEN [error |-> "", body |-> Append(tbl, row)]
    ELSE [error |-> sqlite_error(failure), body |-> Append(tbl, row)]

\* with self.conn: self.conn.execute(INSERT ...): the exception raised and the
\* table after the statement; a statement that fails is rolled back
execute_insert(tbl, row, failure) ==
    IF failure = NoFailure
    THEN [error |-> "", body |-> Insert(tbl, row)]
    ELSE [error |-> sqlite_error(failure), body |-> tbl]

\* save_balance's try/except sqlite3.Error around the INSERT
save_balance_outcome(tbl, row, failure) ==
    LET done == execute_insert(tbl, row, failure)
    IN  [error |-> IF done.error \in SqliteErrors THEN "" ELSE done.error,
         body |-> done.body,
         log |-> IF done.error \in SqliteErrors THEN "Error saving balances" ELSE ""]

\* pd.read_sql(query, self.conn, params): self.conn raises when the attribute
\* is missing, conn.cursor() raises on a closed connection; whatever
\* cursor.execute raises, pandas raises again as pandas.errors.DatabaseError
read_sql(tbl, now, days, failure) ==
    IF failure = NoFailure THEN Returned(get_balance_history(tbl, now, days))
    ELSE IF failure \in {"closed connection", "no connection"} THEN Raised(sqlite_error(failure))
    ELSE Raised("pandas.errors.DatabaseError")

\* get_balance_history's try/except sqlite3.Error around pd.read_sql
get_balance_history_outcome(tbl, now, days, failure) ==
    LET df == read_sql(tbl, now, days, failure)
    IN  [error |-> try_except(df, SqliteErrors, <<>>).error,
         body |-> try_except(df, SqliteErrors, <<>>).body,
         log |-> IF df.error \in SqliteErrors THEN "Error getting balance history" ELSE ""]

\* ---- BinanceAPI (utils/binance_api.py) ----
\* the exchange sends numbers as strings; float(x) raises ValueError on the rest
FloatStrings == {"0", "0.000", "1", "2", "3", "5", "6", "-1", "-2"}
IsFloat(x) == x \in FloatStrings

float(x) ==
    CASE x = "0" -> 0
      [] x = "0.000" -> 0
      [] x = "1" -> 1
      [] x = "2" -> 2
      [] x = "3" -> 3
      [] x = "5" -> 5
      [] x = "6" -> 6
      [] x = "-1" -> 0 - 1
      [] x = "-2" -> 0 - 2

abs(x) == IF x < 0 THEN 0 - x ELSE x

\* d.get(key, default)
Get(d, key, default) == IF key \in DOMAIN d THEN d[key] ELSE default

\* a / b and q * k on floats, kept exact as numerator and denominator
Quotient(a, b) == [num |-> a, den |-> b]
Scale(q, k) == [num |-> q.num * k, den |-> q.den]
Zero == [num |-> 0, den |-> 1]

\* get_current_balance, lines 17-25: the exception one balance entry raises
spot_error(balance) ==
    IF "free" \notin DOMAIN balance \/ "locked" \notin DOMAIN balance THEN "KeyError"
    ELSE IF ~IsFloat(balance.free) \/ ~IsFloat(balance.locked) THEN "ValueError"
    ELSE IF (float(balance.free) > 0 \/ float(balance.locked) > 0) /\ "asset" \notin DOMAIN balance
         THEN "KeyError"
    ELSE ""

spot_entry(balance) ==
    [asset |-> balance.asset, free |-> float(balance.free), locked |-> float(balance.locked),
     total |-> float(balance.free) + float(balance.locked)]

RECURSIVE spot_balances(_)
spot_balances(balances) ==
    IF balances = <<>> THEN Returned(<<>>)
    ELSE LET balance == Head(balances)
             rest == spot_balances(Tail(balances))
         IN  IF spot_error(balance) # "" THEN Raised(spot_error(balance))
             ELSE IF rest.error # "" THEN rest
             ELSE IF float(balance.free) > 0 \/ float(balance.locked) > 0
                  THEN Returned(<<spot_entry(balance)>> \o rest.body)
                  ELSE rest

\* BinanceAPI.get_current_balance: account = client.get_account()
get_current_balance(account) ==
    LET body == IF account.error # "" THEN account
                ELSE IF "balances" \notin DOMAIN account.body THEN Raised("KeyError")
                ELSE spot_balances(account.body.balances)
    IN  try_except(body, Exceptions, <<>>)

\* get_futures_balance, lines 35-42: the first USDT entry of the list
RECURSIVE futures_usdt(_)
futures_usdt(futures_account) ==
    IF futures_account = <<>> THEN Returned(<<>>)
    ELSE LET balance == Head(futures_account)
         IN  IF "asset" \notin DOMAIN balance THEN Raised("KeyError")
             ELSE IF balance.asset # "USDT" THEN futures_usdt(Tail(futures_account))
             ELSE IF ~IsFloat(Get(balance, "balance", "0")) THEN Raised("ValueError")
             ELSE IF ~IsFloat(Get(balance, "withdrawAvailable", Get(balance, "balance", "0")))
                  THEN Raised("ValueError")
             ELSE Returned(<<[asset |-> "USDT",
                              balance |-> float(Get(balance, "balance", "0")),
                              available |-> float(Get(balance, "withdrawAvailable",
                                                      Get(balance, "balance", "0")))]>>)

\* BinanceAPI.get_futures_balance: futures_account = client.futures_account_balance()
get_futures_balance(futures_account) ==
    LET body == IF futures_account.error # "" THEN futures_account
                ELSE futures_usdt(futures_account.body)
    IN  try_except(body, Exceptions, <<>>)

\* prices = {symbol['symbol']: float(symbol['markPrice']) for symbol in futures_mark_price()}
prices_error(marks) ==
    IF \E k \in DOMAIN marks : "symbol" \notin DOMAIN marks[k] \/ "markPrice" \notin DOMAIN marks[k]
    THEN "KeyError"
    ELSE IF \E k \in DOMAIN marks : ~IsFloat(marks[k].markPrice) THEN "ValueError"
    ELSE ""

prices(marks) ==
    [symbol \in {marks[k].symbol : k \in DOMAIN marks} |->
        float(marks[MaxOf({k \in DOMAIN marks : marks[k].symbol = symbol})].markPrice)]

\* no amount counts as zero
is_zero_never(amount) == FALSE

\* if amount == 0: continue
is_zero(amount) == amount = 0

\* get_futures_positions, lines 57-66: the exception one position raises
position_error(pos) ==
    IF ~IsFloat(Get(pos, "positionAmt", "0")) THEN "ValueError"
    ELSE IF is_zero(float(Get(pos, "positionAmt", "0"))) THEN ""
    ELSE IF "symbol" \notin DOMAIN pos THEN "KeyError"
    ELSE IF ~IsFloat(Get(pos, "entryPrice", "0")) THEN "ValueError"
    ELSE IF ~IsFloat(Get(pos, "leverage", "1")) THEN "ValueError"
    ELSE IF ~IsFloat(Get(pos, "unRealizedProfit", "0")) THEN "ValueError"
    ELSE ""

\* usdt_value = abs(amount) * mark_price
usdt_value(amount, mark_price) == abs(amount) * mark_price

\* the return on equity without the guard on the divisor
roe_unguarded(unrealized, amount, entry_price) ==
    Scale(Quotient(unrealized, abs(amount) * entry_price), 100)

\* (unrealized / (abs(amount) * entry_price)) * 100 if entry_price and amount else 0
roe(unrealized, amount, entry_price) ==
    IF entry_price # 0 /\ amount # 0
    THEN Scale(Quotient(unrealized, abs(amount) * entry_price), 100)
    ELSE Zero

\* lines 68-78: the entry appended to valid_positions
valid_position(pos, mark_prices) ==
    LET amount == float(Get(pos, "positionAmt", "0"))
        mark_price == Get(mark_prices, pos.symbol, 0)
        entry_price == float(Get(pos, "entryPrice", "0"))
        leverage == float(Get(pos, "leverage", "1"))
        unrealized == float(Get(pos, "unRealizedProfit", "0"))
    IN  [symbol |-> pos.symbol,
         positionAmt |-> amount,
         positionSide |-> Get(pos, "positionSide", "BOTH"),
         unRealizedProfit |-> unrealized,
         entryPrice |-> entry_price,
         markPrice |-> mark_price,
         usdtValue |-> usdt_value(amount, mark_price),
         roe |-> roe(unrealized, amount, entry_price),
         leverage |-> IF leverage # 0 THEN leverage ELSE 1]

\* a position the loop leaves out: except (ValueError, KeyError): continue, or amount == 0
skip_position(pos) ==
    \/ position_error(pos) \in ParseErrors
    \/ is_zero(float(Get(pos, "positionAmt", "0")))

RECURSIVE valid_positions(_, _)
valid_positions(positions, mark_prices) ==
    IF positions = <<>> THEN <<>>
    ELSE IF skip_position(Head(positions)) THEN valid_positions(Tail(positions), mark_prices)
    ELSE <<valid_position(Head(positions), mark_prices)>>
             \o valid_positions(Tail(positions), mark_prices)

\* BinanceAPI.get_futures_positions: positions = client.futures_position_information(),
\* prices from client.futures_mark_price()
get_futures_positions(positions, marks) ==
    LET body == IF positions.error # "" THEN positions
                ELSE IF marks.error # "" THEN marks
                ELSE IF prices_error(marks.body) # "" THEN Raised(prices_error(marks.body))
                ELSE Returned(valid_positions(positions.body, prices(marks.body)))
    IN  try_except(body, Exceptions, <<>>)

\* ---- what the exchange can answer ----
ApiError == Raised("BinanceAPIException")

\* entries of futures_position_information()
RawPositions ==
    << [symbol |-> "BTCUSDT", positionAmt |-> "2", entryPrice |-> "3",
        unRealizedProfit |-> "6", leverage |-> "5", positionSide |-> "LONG"],
       [symbol |-> "ETHUSDT", positionAmt |-> "-1", entryPrice |-> "2",
        unRealizedProfit |-> "-2", leverage |-> "0"],
       [symbol |-> "BTCUSDT", positionAmt |-> "0.000", entryPrice |-> "0",
        unRealizedProfit |-> "0", leverage |-> "5", positionSide |-> "BOTH"],
       [symbol |-> "ETHUSDT", entryPrice |-> "2"],
       [positionAmt |-> "2", entryPrice |-> "3"],
       [symbol |-> "BTCUSDT", positionAmt |-> "abc"],
       [symbol |-> "BTCUSDT", positionAmt |-> "1", unRealizedProfit |-> "1"],
       [symbol |-> "XRPUSDT", positionAmt |-> "2", entryPrice |-> "1", unRealizedProfit |-> "1"],
       [symbol |-> "ETHUSDT", positionAmt |-> "1", entryPrice |-> ""] >>

\* answers of futures_mark_price()
MarkAnswers ==
    << ApiError,
       Returned(<< [symbol |-> "BTCUSDT", markPrice |-> "3"],
                   [symbol |-> "ETHUSDT", markPrice |-> "2"] >>),
       Returned(<< [symbol |-> "BTCUSDT", markPrice |-> "abc"] >>),
       Returned(<< [symbol |-> "BTCUSDT"] >>) >>

\* entries of futures_account_balance()
RawFutures ==
    << [asset |-> "USDT", balance |-> "2", withdrawAvailable |-> "1"],
       [asset |-> "BNB", balance |-> "1", withdrawAvailable |-> "1"],
       [asset |-> "USDT", balance |-> "abc"],
       [balance |-> "1"],
       [asset |-> "USDT", balance |-> "3"] >>

\* entries of get_account()['balances']
RawSpot ==
    << [asset |-> "BTC", free |-> "2", locked |-> "0"],
       [asset |-> "ETH", free |-> "0.000", locked |-> "1"],
       [asset |-> "XRP", free |-> "0", locked |-> "0"],
       [asset |-> "BNB", free |-> "abc", locked |-> "0"],
       [asset |-> "ADA", free |-> "1"],
       [free |-> "0", locked |-> "0"] >>

\* the lists of at most MaxPositions entries, as indices into a table of entries
Picks(table) == UNION {[1..n -> DOMAIN table] : n \in 0..MaxPositions}
Pick(table, picks) == [k \in DOMAIN picks |-> table[picks[k]]]

\* ---- app.py: the data callback ----
RECURSIVE SumBalance(_)
SumBalance(balances) ==
    IF balances = <<>> THEN 0 ELSE Head(balances).balance + SumBalance(Tail(balances))

\* app.get_futures_data, lines 190-197 and 218-222: futures_total is the sum of
\* the balances the client returned, 0.0 when it returned none
get_futures_data(futures_account, positions, marks) ==
    LET futures_balances == get_futures_balance(futures_account).body
        raw_positions == get_futures_positions(positions, marks).body
    IN  [futures_total |-> IF futures_balances # <<>> THEN SumBalance(futures_balances) ELSE 0,
         positions |-> raw_positions]

\* an exception out of the DataFrame processing of the positions (lines 202-214)
ProcessingFaults == {"processing"}

\* get_futures_data with save_balance called before the positions are processed
get_futures_data_save_first(futures_account, positions, marks, fault) ==
    LET data == get_futures_data(futures_account, positions, marks)
    IN  IF fault = NoFailure
        THEN [data |-> data, saves |-> << <<0, data.futures_total>> >>, log |-> ""]
        ELSE [data |-> [error |-> fault], saves |-> << <<0, data.futures_total>> >>,
              log |-> "Error in get_futures_data"]

\* get_futures_data as a whole: the try block runs to save_balance(0, futures_total)
\* and the return, or an exception on the way gives {'error': str(e)}
get_futures_data_outcome(futures_account, positions, marks, fault) ==
    LET data == get_futures_data(futures_account, positions, marks)
    IN  IF fault = NoFailure
        THEN [data |-> data, saves |-> << <<0, data.futures_total>> >>, log |-> ""]
        ELSE [data |-> [error |-> fault], saves |-> <<>>, log |-> "Error in get_futures_data"]

\* the save_balance calls of one invocation, made in order on the table
RECURSIVE save_balance_calls(_, _, _, _)
save_balance_calls(tbl, localnow, args, failure) ==
    IF args = <<>> THEN [error |-> "", body |-> tbl, log |-> ""]
    ELSE LET first == save_balance_outcome(tbl, NewRow(localnow, Head(args)[1], Head(args)[2]), failure)
             rest == save_balance_calls(first.body, localnow, Tail(args), failure)
         IN  [error |-> IF first.error # "" THEN first.error ELSE rest.error,
              body |-> rest.body,
              log |-> IF first.log # "" THEN first.log ELSE rest.log]

\* app.update_data_and_sort: 'error' in data gives the dashes and "Error",
\* otherwise the balance card, the position cards and their count
update_data_and_sort(data) ==
    IF "error" \in DOMAIN data
    THEN [label |-> "Error", futures_total |-> 0, positions_count |-> 0]
    ELSE [label |-> "USDT", futures_total |-> data.futures_total,
          positions_count |-> Len(data.positions)]

\* app.update_graph_and_buttons, lines 280-365, with the store read failing or
\* not: an exception out of get_balance_history is caught by except Exception
graph_figure(tbl, now, localnow, period_days, failure) ==
    LET df == get_balance_history_outcome(tbl, now, AllHistory, failure)
    IN  IF df.error # "" THEN [title |-> "Error", data |-> <<>>]
        ELSE IF failure # NoFailure THEN [title |-> "No data", data |-> <<>>]
        ELSE update_graph_and_buttons(tbl, now, localnow, period_days)

\* what update_graph_and_buttons leaves in the log: get_balance_history logs the
\* sqlite3.Error it catches, and the callback's except Exception (lines 362-363)
\* logs the exception that came out of it
graph_log(tbl, now, failure) ==
    LET df == get_balance_history_outcome(tbl, now, AllHistory, failure)
    IN  IF df.error # "" THEN "Graph update error" ELSE df.log

\* ---- the state after construction ----
EmptyFigure == [title |-> "", data |-> <<>>]

NoRow == [id |-> 0, row |-> NewRow(0, 0, 0)]

\* no get_balance_history call is between cursor.execute and its return
NoRead == [at |-> "idle", days |-> 0, df |-> <<>>]

\* no add_historical_data call is between its two statements
NoImport == [date |-> 0, futures_balance |-> 0, spot_balance |-> 0, at |-> "idle"]

NoCards == [label |-> "", futures_total |-> 0, positions_count |-> 0]

\* BalanceStorage(), BinanceAPI() and the page are constructed; nothing has run
Constructed ==
    /\ rows = <<>>
    /\ utc = StartTime
    /\ offset \in TzOffsets
    /\ op = "idle"
    /\ req = None
    /\ history = <<>>
    /\ figure = EmptyFigure
    /\ added = FALSE
    /\ justSaved = 0
    /\ pc = [w \in Writers |-> "idle"]
    /\ lock = NoWriter
    /\ local = [w \in Writers |-> NoRow]
    /\ calls = 0
    /\ reading = [w \in Writers |-> NoRead]
    /\ importer = NoImport
    /\ raised = ""
    /\ logged = ""
    /\ cards = NoCards
    /\ pending = {}
    /\ result = <<>>
    /\ sort_store = [field |-> "size_usdt", order |-> "desc"]
    /\ clicks = None
    /\ selected = ""
    /\ saves = <<>>

\* The module has been imported (the store is open) and the server is running.
Serving ==
    /\ conn = "open"
    /\ opens = 1
    /\ closes = 0
    /\ main = [app |-> "app.py", at |-> "serving"]
    /\ tables = {"balance_history"}

Init ==
    /\ Constructed
    /\ Serving
    /\ response = <<>>

NoResponse ==
    /\ req' = None
    /\ history' = <<>>
    /\ figure' = EmptyFigure
    /\ added' = FALSE

\* BalanceStorage.save_balance(spot_total, futures_total)
save_balance(spot_total, futures_total) ==
    /\ Len(rows) < MaxRows
    /\ rows' = Insert(rows, NewRow(datetime_now, spot_total, futures_total))
    /\ justSaved' = Len(rows) + 1
    /\ op' = "save_balance"
    /\ NoResponse
    /\ UNCHANGED <<utc, offset>>
    /\ UNCHANGED concVars
    /\ UNCHANGED edgeVars
    /\ UNCHANGED appVars

\* BalanceStorage.get_balance_history(days)
Query(days) ==
    /\ history' = get_balance_history(rows, utc, days)
    /\ req' = days
    /\ op' = "get_balance_history"
    /\ figure' = EmptyFigure
    /\ added' = FALSE
    /\ UNCHANGED <<rows, utc, offset, justSaved>>
    /\ UNCHANGED concVars
    /\ UNCHANGED edgeVars
    /\ UNCHANGED appVars

\* the machine's clock advances
Tick ==
    /\ utc < MaxTime
    /\ utc' = utc + 1
    /\ op' = "idle"
    /\ justSaved' = 0
    /\ NoResponse
    /\ UNCHANGED <<rows, offset>>
    /\ UNCHANGED concVars
    /\ UNCHANGED edgeVars
    /\ UNCHANGED appVars

\* the local wall clock is set forward or back (daylight saving, time zone)
ClockAdjust ==
    /\ \E o \in TzOffsets \ {offset} : offset' = o
    /\ op' = "idle"
    /\ justSaved' = 0
    /\ NoResponse
    /\ UNCHANGED <<rows, utc>>
    /\ UNCHANGED concVars
    /\ UNCHANGED edgeVars
    /\ UNCHANGED appVars

\* what a statement of the importer can meet on a database with tables t: its
\* connection is open (the importer does not create the table), so a statement
\* fails on a missing table, or on the database lock held by another
\* connection past the timeout
CanFail(t, failure) ==
    IF "balance_history" \in t THEN failure \in {NoFailure, "lock timeout"}
    ELSE failure = "no such table"

\* HistoricalDataImporter.add_historical_data(date, futures_balance, spot_balance=0),
\* up to its SELECT 1 ... WHERE date(timestamp) = date(?): a row of that date
\* makes the call return False, and so does a sqlite3.Error of the SELECT
\* (except branch: 'Database error' is logged); otherwise the call goes on to
\* its INSERT, a second autocommit statement, and other connections may write
\* in between
add_historical_data(date, futures_balance, spot_balance, failure) ==
    /\ importer.at = "idle"
    /\ CanFail(tables, failure)
    /\ IF failure # NoFailure \/ DateExists(rows, date)
       THEN /\ importer' = importer
            /\ op' = "add_historical_data"
            /\ req' = DateOf(date)
       ELSE /\ importer' = [date |-> date, futures_balance |-> futures_balance,
                            spot_balance |-> spot_balance, at |-> "insert"]
            /\ op' = "SELECT 1"
            /\ req' = req
    /\ logged' = IF failure # NoFailure /\ sqlite_error(failure) \in SqliteErrors
                 THEN "Database error" ELSE ""
    /\ raised' = ""
    /\ added' = FALSE
    /\ justSaved' = 0
    /\ history' = <<>>
    /\ figure' = EmptyFigure
    /\ UNCHANGED <<rows, utc, offset>>
    /\ UNCHANGED <<pc, lock, local, calls, reading>>
    /\ UNCHANGED <<cards, pending, response, result>>
    /\ UNCHANGED appVars

\* add_historical_data after fetchone() returned None: the INSERT runs on the
\* table as it is now, and the call returns True; an INSERT that raises
\* sqlite3.Error adds nothing, 'Database error' is logged and the call returns
\* False
add_historical_data_insert(failure) ==
    LET done == execute_insert(rows, NewRow(importer.date, importer.spot_balance,
                                            importer.futures_balance), failure)
    IN  /\ importer.at = "insert"
        /\ CanFail(tables, failure)
        /\ failure = NoFailure => Len(rows) < MaxRows
        /\ rows' = done.body
        /\ added' = (done.error = "")
        /\ logged' = IF done.error \in SqliteErrors THEN "Database error" ELSE ""
        /\ raised' = ""
        /\ importer' = NoImport
        /\ op' = "add_historical_data"
        /\ req' = DateOf(importer.date)
        /\ justSaved' = 0
        /\ history' = <<>>
        /\ figure' = EmptyFigure
        /\ UNCHANGED <<utc, offset>>
        /\ UNCHANGED <<pc, lock, local, calls, reading>>
        /\ UNCHANGED <<cards, pending, response, result>>
        /\ UNCHANGED appVars

\* app6.update_graph, triggered by a period button or the refresh interval
UpdateGraph6(button_id) ==
    /\ figure' = update_graph6(rows, utc, datetime_now, PeriodOf6(button_id))
    /\ req' = PeriodOf6(button_id)
    /\ op' = "update_graph"
    /\ history' = <<>>
    /\ added' = FALSE
    /\ UNCHANGED <<rows, utc, offset, justSaved>>
    /\ UNCHANGED concVars
    /\ UNCHANGED edgeVars
    /\ UNCHANGED appVars

\* app.update_graph_and_buttons, triggered by a period button or the refresh interval;
\* btn_classes[button_id] += ' active' raises KeyError for a trigger that is no button
UpdateGraphAndButtons(button_id) ==
    /\ figure' = IF button_id \in DOMAIN btn_classes
                 THEN update_graph_and_buttons(rows, utc, datetime_now, PeriodOf(button_id))
                 ELSE [title |-> "KeyError", data |-> <<>>]
    /\ req' = PeriodOf(button_id)
    /\ op' = "update_graph_and_buttons"
    /\ history' = <<>>
    /\ added' = FALSE
    /\ UNCHANGED <<rows, utc, offset, justSaved>>
    /\ UNCHANGED concVars
    /\ UNCHANGED edgeVars
    /\ UNCHANGED appVars

Next ==
    \/ \E in \in SaveInputs : save_balance(in[1], in[2])
    \/ \E d \in Lookbacks : Query(d)
    \/ \E b \in Triggers6 : UpdateGraph6(b)
    \/ \E b \in Triggers : UpdateGraphAndButtons(b)
    \/ Tick
    \/ ClockAdjust

Spec == Init /\ [][Next]_vars

\* ---- concurrent writers: save_balance step by step ----
\* SQLite grants the write lock of the database file to one writer at a time
CanLock(holder) == holder = NoWriter

\* the balances the concurrent calls store: (spot_total, futures_total)
ConcInputs == {<<0, 1>>, <<1, 2>>}

\* the connections that have a SELECT in progress: cursor.execute returned a
\* row and the rest is not fetched yet, so the statement holds its read lock; a
\* SELECT that finds no row is finished when cursor.execute returns
Readers == {w \in Writers : reading[w].at = "executed" /\ reading[w].df # <<>>}

\* INSERT INTO balance_history: the row lands at the id the writer took
InsertAt(tbl, id, row) ==
    IF id = Len(tbl) + 1 THEN Append(tbl, row) ELSE [tbl EXCEPT ![id] = row]

\* save_balance is entered: the parameter tuple (datetime.now(), ...) is built
SaveBegin(w, spot_total, futures_total) ==
    /\ pc[w] = "idle"
    /\ calls < MaxCalls
    /\ calls' = calls + 1
    /\ local' = [local EXCEPT ![w] = [id |-> 0, row |-> NewRow(datetime_now, spot_total, futures_total)]]
    /\ pc' = [pc EXCEPT ![w] = "execute"]
    /\ UNCHANGED <<lock, reading, importer>>
    /\ UNCHANGED storeVars
    /\ UNCHANGED edgeVars
    /\ UNCHANGED appVars

\* conn.execute(INSERT) takes the write lock and the next AUTOINCREMENT id
SaveLock(w) ==
    /\ pc[w] = "execute"
    /\ CanLock(lock)
    /\ lock' = w
    /\ local' = [local EXCEPT ![w].id = Len(rows) + 1]
    /\ pc' = [pc EXCEPT ![w] = "locked"]
    /\ UNCHANGED <<calls, reading, importer>>
    /\ UNCHANGED storeVars
    /\ UNCHANGED edgeVars
    /\ UNCHANGED appVars

\* the row is written
SaveInsert(w) ==
    /\ pc[w] = "locked"
    /\ rows' = InsertAt(rows, local[w].id, local[w].row)
    /\ pc' = [pc EXCEPT ![w] = "written"]
    /\ UNCHANGED <<lock, local, calls, reading, importer>>
    /\ UNCHANGED <<utc, offset, op, req, history, figure, added, justSaved>>
    /\ UNCHANGED edgeVars
    /\ UNCHANGED appVars

\* the statement commits, the lock is released and save_balance returns; the
\* commit waits until no other connection has a read in progress
SaveCommit(w) ==
    /\ pc[w] = "written"
    /\ Readers \ {w} = {}
    /\ lock' = IF lock = w THEN NoWriter ELSE lock
    /\ pc' = [pc EXCEPT ![w] = "idle"]
    /\ local' = [local EXCEPT ![w] = NoRow]
    /\ logged' = ""
    /\ raised' = ""
    /\ UNCHANGED <<calls, reading, importer>>
    /\ UNCHANGED storeVars
    /\ UNCHANGED <<cards, pending, response, result>>
    /\ UNCHANGED appVars

\* a reader that sees the row of a statement in progress, half written
VisiblePartial(tbl, state, loc) ==
    LET inflight == {loc[w].id : w \in {v \in Writers : state[v] = "written"}}
    IN  [i \in 1..Len(tbl) |->
            IF i \in inflight
            THEN [tbl[i] EXCEPT !.futures_balance = 0, !.total_balance = 0]
            ELSE tbl[i]]

\* the table a SELECT reads: SQLite shows a reader the rows of committed
\* statements only, never the row of an INSERT that is still in progress
Visible(tbl, state, loc) ==
    LET inflight == {loc[w].id : w \in {v \in Writers : state[v] = "written"}}
        ids == FilterIds(IdSeq(Len(tbl)), Ids(tbl) \ inflight)
    IN  [k \in 1..Len(ids) |-> tbl[ids[k]]]

\* conn.execute(INSERT) finds the write lock taken by another connection while
\* its own connection has a read in progress: SQLite gives up at once (the
\* holder of the lock is kept from committing by that very read) with
\* sqlite3.OperationalError 'database is locked'; save_balance logs it and
\* returns, its row is not written. With no read in progress on its
\* connection the INSERT waits for the lock.
SaveLocked(w) ==
    /\ pc[w] = "execute"
    /\ w \in Readers
    /\ ~CanLock(lock)
    /\ pc' = [pc EXCEPT ![w] = "idle"]
    /\ local' = [local EXCEPT ![w] = NoRow]
    /\ logged' = "Error saving balances"
    /\ raised' = ""
    /\ UNCHANGED <<lock, calls, reading, importer>>
    /\ UNCHANGED storeVars
    /\ UNCHANGED <<cards, pending, response, result>>
    /\ UNCHANGED appVars

\* the commit of the INSERT times out on the read another connection has in
\* progress: sqlite3.OperationalError 'database is locked', the statement is
\* rolled back, save_balance logs the error and returns
SaveRollback(w) ==
    /\ pc[w] = "written"
    /\ Readers \ {w} # {}
    /\ rows' = SubSeq(rows, 1, local[w].id - 1)
    /\ lock' = IF lock = w THEN NoWriter ELSE lock
    /\ pc' = [pc EXCEPT ![w] = "idle"]
    /\ local' = [local EXCEPT ![w] = NoRow]
    /\ logged' = "Error saving balances"
    /\ raised' = ""
    /\ UNCHANGED <<calls, reading, importer>>
    /\ UNCHANGED <<utc, offset, op, req, history, figure, added, justSaved>>
    /\ UNCHANGED <<cards, pending, response, result>>
    /\ UNCHANGED appVars

\* pd.read_sql on the connection of w: cursor.execute runs the SELECT; its
\* ORDER BY on date(timestamp) makes SQLite read every row of the window into
\* its sorter in this first step, so the result is the table as it is now
ReadBegin(w, days) ==
    /\ reading[w].at = "idle"
    /\ reading' = [reading EXCEPT ![w] =
                       [at |-> "executed", days |-> days,
                        df |-> get_balance_history(Visible(rows, pc, local), utc, days)]]
    /\ UNCHANGED <<pc, lock, local, calls, importer>>
    /\ UNCHANGED storeVars
    /\ UNCHANGED edgeVars
    /\ UNCHANGED appVars

\* get_balance_history(days) on the connection of w returns the rows its SELECT
\* read, while writers are at work
ReadConc(w) ==
    /\ reading[w].at = "executed"
    /\ reading' = [reading EXCEPT ![w] = NoRead]
    /\ history' = reading[w].df
    /\ req' = reading[w].days
    /\ op' = "get_balance_history"
    /\ raised' = ""
    /\ logged' = ""
    /\ UNCHANGED <<rows, utc, offset, figure, added, justSaved>>
    /\ UNCHANGED <<pc, lock, local, calls, importer>>
    /\ UNCHANGED <<cards, pending, response, result>>
    /\ UNCHANGED appVars

NextConc ==
    \/ \E w \in Writers, d \in Lookbacks : ReadBegin(w, d)
    \/ \E w \in Writers : ReadConc(w)
    \/ \E w \in Writers : SaveLocked(w)
    \/ \E w \in Writers, in \in ConcInputs : SaveBegin(w, in[1], in[2])
    \/ \E w \in Writers : SaveLock(w)
    \/ \E w \in Writers : SaveInsert(w)
    \/ \E w \in Writers : SaveCommit(w)
    \/ \E w \in Writers : SaveRollback(w)

\* the connections are those of one machine, whose local clock is UTC here
InitConc == Init /\ offset = 0

SpecConc == InitConc /\ [][NextConc]_vars

\* ---- the store's calls, with the storage layer failing or not ----
\* BalanceStorage.save_balance(spot_total, futures_total)
SaveBalance(spot_total, futures_total, failure) ==
    LET done == save_balance_outcome(rows, NewRow(datetime_now, spot_total, futures_total), failure)
    IN  /\ Len(rows) < MaxRows
        /\ rows' = done.body
        /\ raised' = done.error
        /\ logged' = done.log
        /\ response' = [failure |-> failure]
        /\ op' = "save_balance"
        /\ history' = <<>>
        /\ req' = None
        /\ UNCHANGED <<utc, offset, figure, added, justSaved>>
        /\ UNCHANGED <<cards, pending, result>>
        /\ UNCHANGED concVars
        /\ UNCHANGED appVars

\* BalanceStorage.get_balance_history(days)
GetBalanceHistory(days, failure) ==
    LET done == get_balance_history_outcome(rows, utc, days, failure)
    IN  /\ history' = done.body
        /\ raised' = done.error
        /\ logged' = done.log
        /\ response' = [failure |-> failure]
        /\ op' = "get_balance_history"
        /\ req' = days
        /\ UNCHANGED <<rows, utc, offset, figure, added, justSaved>>
        /\ UNCHANGED <<cards, pending, result>>
        /\ UNCHANGED concVars
        /\ UNCHANGED appVars

NextFail ==
    \/ \E in \in SaveInputs, failure \in StorageFailures \cup {NoFailure} :
          SaveBalance(in[1], in[2], failure)
    \/ \E d \in Lookbacks, failure \in StorageFailures \cup {NoFailure} :
          GetBalanceHistory(d, failure)

SpecFail == Init /\ [][NextFail]_vars

\* ---- app.py: one firing of the refresh interval and the callbacks it triggers ----
Callbacks == {"update_data_and_sort", "update_graph_and_buttons"}

\* what the exchange answers during a refresh cycle
CycleFutures == <<ApiError, Returned(<<RawFutures[1]>>), Returned(<<RawFutures[2]>>)>>
CyclePositions == <<ApiError, Returned(<<RawPositions[1]>>)>>
CycleFailures == {NoFailure, "lock timeout"}

\* dcc.Interval(id='interval-component') fires, some time after the last
\* firing: both callbacks have it as Input
IntervalFires(elapsed) ==
    /\ pending = {}
    /\ utc + elapsed <= MaxTime
    /\ utc' = utc + elapsed
    /\ pending' = Callbacks
    /\ op' = "interval-component"
    /\ raised' = ""
    /\ logged' = ""
    /\ cards' = NoCards
    /\ response' = <<>>
    /\ justSaved' = 0
    /\ saves' = <<>>
    /\ NoResponse
    /\ UNCHANGED <<rows, offset, result>>
    /\ UNCHANGED concVars
    /\ UNCHANGED <<procVars, pageVars>>

\* app.update_data_and_sort(n_intervals, sort_data), triggered by the interval
UpdateDataAndSort(futures_account, positions, marks, failure, fault) ==
    LET done == get_futures_data_outcome(futures_account, positions, marks, fault)
        saved == save_balance_calls(rows, datetime_now, done.saves, failure)
    IN  /\ "update_data_and_sort" \in pending
        /\ Len(rows) < MaxRows
        /\ pending' = pending \ {"update_data_and_sort"}
        /\ rows' = saved.body
        /\ saves' = done.saves
        /\ logged' = IF "error" \in DOMAIN done.data THEN "Data fetch error" ELSE saved.log
        /\ raised' = saved.error
        /\ cards' = update_data_and_sort(done.data)
        /\ response' = [futures_account |-> futures_account, positions |-> positions,
                        marks |-> marks, failure |-> failure, fault |-> fault]
        /\ op' = "update_data_and_sort"
        /\ NoResponse
        /\ UNCHANGED <<utc, offset, justSaved, result>>
        /\ UNCHANGED concVars
        /\ UNCHANGED <<procVars, pageVars>>

\* app.update_graph_and_buttons, triggered by the interval or by a period button;
\* btn_classes[button_id] += ' active' comes before the try block
RefreshGraph(button_id, failure) ==
    /\ button_id = "interval-component" => "update_graph_and_buttons" \in pending
    /\ pending' = IF button_id = "interval-component"
                  THEN pending \ {"update_graph_and_buttons"} ELSE pending
    /\ raised' = IF button_id \in DOMAIN btn_classes THEN "" ELSE "KeyError"
    /\ figure' = IF button_id \in DOMAIN btn_classes
                 THEN graph_figure(rows, utc, datetime_now, PeriodOf(button_id), failure)
                 ELSE [title |-> "KeyError", data |-> <<>>]
    /\ logged' = IF button_id \in DOMAIN btn_classes
                 THEN graph_log(rows, utc, failure)
                 ELSE ""
    /\ response' = [trigger |-> button_id, failure |-> failure]
    /\ req' = PeriodOf(button_id)
    /\ op' = "update_graph_and_buttons"
    /\ cards' = NoCards
    /\ saves' = <<>>
    /\ history' = IF button_id \in DOMAIN btn_classes
                  THEN get_balance_history_outcome(rows, utc, AllHistory, failure).body
                  ELSE <<>>
    /\ added' = FALSE
    /\ UNCHANGED <<rows, utc, offset, justSaved, result>>
    /\ UNCHANGED concVars
    /\ UNCHANGED <<procVars, pageVars>>

NextDash ==
    \/ \E elapsed \in {0, 1} : IntervalFires(elapsed)
    \/ \E a \in DOMAIN CycleFutures, p \in DOMAIN CyclePositions,
          failure \in CycleFailures, fault \in ProcessingFaults \cup {NoFailure} :
          UpdateDataAndSort(CycleFutures[a], CyclePositions[p], MarkAnswers[2], failure, fault)
    \/ \E b \in Triggers, failure \in StorageFailures \cup {NoFailure} : RefreshGraph(b, failure)

SpecDash == Init /\ [][NextDash]_vars

\* ---- the exchange client's public methods, applied to what the exchange answers ----
\* the client is constructed and the exchange has its answer ready
InitApi ==
    /\ Constructed
    /\ Serving
    /\ \/ response = [account |-> ApiError]
       \/ response = [account |-> Returned([code |-> "-1"])]
       \/ \E p \in Picks(RawSpot) :
             response = [account |-> Returned([balances |-> Pick(RawSpot, p)])]
       \/ response = [futures_account |-> ApiError]
       \/ \E p \in Picks(RawFutures) :
             response = [futures_account |-> Returned(Pick(RawFutures, p))]
       \/ \E m \in DOMAIN MarkAnswers :
             response = [positions |-> ApiError, marks |-> MarkAnswers[m]]
       \/ \E p \in Picks(RawPositions), m \in DOMAIN MarkAnswers :
             response = [positions |-> Returned(Pick(RawPositions, p)), marks |-> MarkAnswers[m]]

ApiFrame ==
    /\ logged' = ""
    /\ UNCHANGED <<cards, pending, response>>
    /\ UNCHANGED <<rows, utc, offset, req, history, figure, added, justSaved>>
    /\ UNCHANGED concVars
    /\ UNCHANGED appVars

\* BinanceAPI.get_current_balance()
GetCurrentBalance ==
    /\ op = "idle"
    /\ "account" \in DOMAIN response
    /\ result' = get_current_balance(response.account).body
    /\ raised' = get_current_balance(response.account).error
    /\ op' = "get_current_balance"
    /\ ApiFrame

\* BinanceAPI.get_futures_balance()
GetFuturesBalance ==
    /\ op = "idle"
    /\ "futures_account" \in DOMAIN response
    /\ result' = get_futures_balance(response.futures_account).body
    /\ raised' = get_futures_balance(response.futures_account).error
    /\ op' = "get_futures_balance"
    /\ ApiFrame

\* BinanceAPI.get_futures_positions()
GetFuturesPositions ==
    /\ op = "idle"
    /\ "positions" \in DOMAIN response
    /\ result' = get_futures_positions(response.positions, response.marks).body
    /\ raised' = get_futures_positions(response.positions, response.marks).error
    /\ op' = "get_futures_positions"
    /\ ApiFrame

NextApi ==
    \/ GetCurrentBalance
    \/ GetFuturesBalance
    \/ GetFuturesPositions

SpecApi == InitApi /\ [][NextApi]_vars

\* ---- the life of one BalanceStorage object (utils/data_storage.py) ----
MaxCloses == 3
InitFailures == {"cannot open", "cannot create table"}

\* _init_db: sqlite3.connect binds self.conn, _create_tables runs on it; any
\* exception is logged and raised again
init_db(c, failure) ==
    CASE failure = NoFailure ->
            [error |-> "", body |-> "open", opened |-> 1,
             log |-> "Database initialized successfully"]
      [] failure = "cannot open" ->
            [error |-> "sqlite3.OperationalError", body |-> c, opened |-> 0,
             log |-> "Database initialization failed"]
      [] failure = "cannot create table" ->
            [error |-> "sqlite3.OperationalError", body |-> "open", opened |-> 1,
             log |-> "Database initialization failed"]

\* _create_tables: CREATE TABLE IF NOT EXISTS balance_history, reached when
\* sqlite3.connect succeeded and done when the statement does not fail
create_tables(t, failure) ==
    IF failure = NoFailure THEN t \cup {"balance_history"} ELSE t

\* what a statement on the object's connection meets
conn_failure(c, t) ==
    IF c = "absent" THEN "no connection"
    ELSE IF c = "closed" THEN "closed connection"
    ELSE IF "balance_history" \notin t THEN "no such table"
    ELSE NoFailure

\* hasattr(self, 'conn')
hasattr_conn(c) == c # "absent"

\* self.conn.close(): sqlite3 closes an open connection and accepts a closed one
conn_close(c) == IF c = "absent" THEN Raised("AttributeError") ELSE Returned("closed")

\* close() without its guard and without its handler
close_unprotected(c) ==
    LET done == conn_close(c)
    IN  [error |-> done.error,
         body |-> IF done.error = "" THEN done.body ELSE c,
         log |-> IF done.error = "" THEN "Database connection closed" ELSE ""]

\* close(): try: if hasattr(self, 'conn'): self.conn.close() except Exception: log
close(c) ==
    LET done == IF hasattr_conn(c) THEN conn_close(c) ELSE Returned(c)
        safe == try_except(done, Exceptions, c)
    IN  [error |-> safe.error,
         body |-> safe.body,
         log |-> IF done.error \in Exceptions THEN "Error closing connection"
                 ELSE IF hasattr_conn(c) THEN "Database connection closed" ELSE ""]

InitStore ==
    /\ Constructed
    /\ response = <<>>
    /\ conn = "absent"
    /\ opens = 0
    /\ closes = 0
    /\ main = [app |-> "app.py", at |-> "import"]
    /\ tables \in {{}, {"balance_history"}}

StoreFrame ==
    /\ UNCHANGED <<pageVars, saves>>
    /\ UNCHANGED <<rows, utc, offset, req, history, figure, added, justSaved>>
    /\ UNCHANGED <<cards, pending, result>>
    /\ UNCHANGED concVars

\* BalanceStorage(): __init__ calls _init_db
NewStore(failure) ==
    LET done == init_db(conn, failure)
    IN  /\ op = "idle"
        /\ conn' = done.body
        /\ opens' = opens + done.opened
        /\ raised' = done.error
        /\ logged' = done.log
        /\ tables' = create_tables(tables, failure)
        /\ op' = "__init__"
        /\ response' = [failure |-> failure]
        /\ UNCHANGED <<closes, main>>
        /\ StoreFrame

\* BalanceStorage.close()
Close ==
    LET done == close(conn)
    IN  /\ op # "idle"
        /\ closes < MaxCloses
        /\ conn' = done.body
        /\ raised' = done.error
        /\ logged' = done.log
        /\ closes' = closes + 1
        /\ op' = "close"
        /\ response' = <<>>
        /\ UNCHANGED <<opens, main, tables>>
        /\ StoreFrame

\* save_balance on the object: the INSERT runs on an open connection whose
\* database has the table; it fails on a closed connection and on a missing
\* table, and `with self.conn` raises when the constructor bound no connection
StoreSave(spot_total, futures_total) ==
    /\ op # "idle"
    /\ SaveBalance(spot_total, futures_total, conn_failure(conn, tables))

\* get_balance_history on the object
StoreRead(days) ==
    /\ op # "idle"
    /\ GetBalanceHistory(days, conn_failure(conn, tables))

NextStore ==
    \/ \E failure \in InitFailures \cup {NoFailure} : NewStore(failure)
    \/ Close
    \/ \E in \in SaveInputs : StoreSave(in[1], in[2])
    \/ \E d \in Lookbacks : StoreRead(d)

SpecStore == InitStore /\ [][NextStore]_vars

\* ---- the importer running beside the application ----
\* import_historical_data.py is a process of its own, with its own connection
\* to the database file the application (app.py) writes and reads
\* the importer is run on the database of the running application, or on a
\* new database file before the application has ever started
InitImport ==
    /\ Constructed
    /\ response = <<>>
    /\ \/ Serving
       \/ /\ conn = "absent"
          /\ opens = 0
          /\ closes = 0
          /\ main = [app |-> "app.py", at |-> "import"]
          /\ tables = {}

NextImport ==
    \/ \E k \in DOMAIN historical_data, failure \in {NoFailure, "lock timeout", "no such table"} :
          add_historical_data(Midnight(historical_data[k][1]), historical_data[k][2], 0, failure)
    \/ \E failure \in {NoFailure, "lock timeout", "no such table"} : add_historical_data_insert(failure)
    \/ conn = "absent" /\ NewStore(NoFailure)
    \/ \E in \in SaveInputs : conn = "open" /\ save_balance(in[1], in[2])
    \/ \E d \in Lookbacks : conn = "open" /\ Query(d)
    \/ Tick

SpecImport == InitImport /\ [][NextImport]_vars

\* ---- the process: module import, the __main__ block, exit ----
Programs == {"app.py", "app6.py", "app_old1.py"}

\* the __main__ blocks with an `except Exception` clause between try and finally
has_except(app) == app \in {"app.py", "app_old1.py"}

\* how the statements inside the try can end: server.run returns, or an
\* Exception (a bad PORT value, a port in use) or a BaseException (SystemExit)
\* leaves the try
RunOutcomes == {"", "ValueError", "OSError", "SystemExit"}

InitLife ==
    /\ Constructed
    /\ response = <<>>
    /\ conn = "absent"
    /\ opens = 0
    /\ closes = 0
    /\ main \in {[app |-> a, at |-> "import"] : a \in Programs}
    /\ tables \in {{}, {"balance_history"}}

LifeFrame ==
    /\ UNCHANGED <<pageVars, saves>>
    /\ UNCHANGED <<rows, utc, offset, req, history, figure, added, justSaved>>
    /\ UNCHANGED <<cards, pending, result>>
    /\ UNCHANGED concVars

\* import of the module: balance_storage = BalanceStorage(); an exception of
\* the constructor ends the process before __main__ is reached
ImportModule(failure) ==
    LET done == init_db(conn, failure)
    IN  /\ main.at = "import"
        /\ conn' = done.body
        /\ opens' = opens + done.opened
        /\ raised' = done.error
        /\ logged' = done.log
        /\ main' = [main EXCEPT !.at = IF done.error = "" THEN "try" ELSE "crashed"]
        /\ tables' = create_tables(tables, failure)
        /\ op' = "__init__"
        /\ response' = [failure |-> failure]
        /\ UNCHANGED closes
        /\ LifeFrame

\* app_old1.py: if not os.path.exists(db_path): balance_storage._init_db()
CheckDatabase(exists, failure) ==
    LET done == IF main.app = "app_old1.py" /\ ~exists
                THEN init_db(conn, failure)
                ELSE [error |-> "", body |-> conn, opened |-> 0, log |-> ""]
    IN  /\ main.at = "try"
        /\ conn' = done.body
        /\ opens' = opens + done.opened
        /\ raised' = done.error
        /\ logged' = done.log
        /\ main' = [main EXCEPT !.at = IF done.error = "" THEN "server.run"
                                       ELSE IF has_except(main.app) THEN "except"
                                       ELSE "finally"]
        /\ tables' = IF main.app = "app_old1.py" /\ ~exists
                     THEN create_tables(tables, failure) ELSE tables
        /\ op' = "os.path.exists"
        /\ response' = [exists |-> exists, failure |-> failure]
        /\ UNCHANGED closes
        /\ LifeFrame

\* server.run(...) is serving: a refresh stores a snapshot
Serve(spot_total, futures_total) ==
    /\ main.at = "server.run"
    /\ SaveBalance(spot_total, futures_total, conn_failure(conn, tables))

\* the try block is left
ServerRunEnds(outcome) ==
    /\ main.at = "server.run"
    /\ raised' = outcome
    /\ main' = [main EXCEPT !.at = IF outcome \in Exceptions /\ has_except(main.app)
                                   THEN "except" ELSE "finally"]
    /\ op' = "server.run"
    /\ logged' = ""
    /\ response' = [outcome |-> outcome]
    /\ UNCHANGED <<conn, opens, closes, tables>>
    /\ LifeFrame

\* except Exception as e: log the failure
ExceptClause ==
    /\ main.at = "except"
    /\ raised' = ""
    /\ logged' = "Failed to start server"
    /\ main' = [main EXCEPT !.at = "finally"]
    /\ op' = "except"
    /\ UNCHANGED <<conn, opens, closes, tables, response>>
    /\ LifeFrame

\* finally: balance_storage.close(); an exception still in flight goes on
FinallyClause ==
    LET done == close(conn)
    IN  /\ main.at = "finally"
        /\ conn' = done.body
        /\ closes' = closes + 1
        /\ raised' = IF done.error # "" THEN done.error ELSE raised
        /\ logged' = done.log
        /\ main' = [main EXCEPT !.at = "exited"]
        /\ op' = "close"
        /\ UNCHANGED <<opens, tables, response>>
        /\ LifeFrame

NextLife ==
    \/ \E failure \in InitFailures \cup {NoFailure} : ImportModule(failure)
    \/ \E exists \in BOOLEAN, failure \in InitFailures \cup {NoFailure} :
          CheckDatabase(exists, failure)
    \/ \E in \in SaveInputs : Serve(in[1], in[2])
    \/ \E outcome \in RunOutcomes : ServerRunEnds(outcome)
    \/ ExceptClause
    \/ FinallyClause

SpecLife == InitLife /\ [][NextLife]_vars

\* ---- app.py: the positions header and the sort state ----
MaxClicks == 4

\* fields = ['size_usdt', 'unRealizedProfit', 'roe']
fields == <<"size_usdt", "unRealizedProfit", "roe">>

\* fields.index(current_field)
index(seq, x) == CHOOSE k \in DOMAIN seq : seq[k] = x

\* a toggle that flips between the first two fields only
toggle_sort_field_two(n_clicks, current_sort) ==
    IF n_clicks = None THEN current_sort
    ELSE [field |-> fields[(index(fields, current_sort.field) % 2) + 1], order |-> "desc"]

\* app.toggle_sort_field(n_clicks, current_sort); the model's sequences start
\* at 1, the source's lists at 0
toggle_sort_field(n_clicks, current_sort) ==
    IF n_clicks = None THEN current_sort
    ELSE [field |-> fields[(index(fields, current_sort.field) % Len(fields)) + 1],
          order |-> "desc"]

\* the callback runs with the header's n_clicks: None when the page loads, the
\* click count after a click; its output 'sort-store' is an Input of
\* update_data_and_sort
ToggleSortField(click) ==
    LET n_clicks == IF ~click THEN clicks ELSE IF clicks = None THEN 1 ELSE clicks + 1
    IN  /\ click \/ clicks = None
        /\ n_clicks <= MaxClicks
        /\ clicks' = n_clicks
        /\ sort_store' = toggle_sort_field(n_clicks, sort_store)
        /\ pending' = pending \cup {"update_data_and_sort"}
        /\ op' = "toggle_sort_field"
        /\ raised' = ""
        /\ logged' = ""
        /\ cards' = NoCards
        /\ response' = [click |-> click]
        /\ saves' = <<>>
        /\ NoResponse
        /\ UNCHANGED <<rows, utc, offset, justSaved, result, selected>>
        /\ UNCHANGED concVars
        /\ UNCHANGED procVars

NextSort ==
    \/ \E click \in BOOLEAN : ToggleSortField(click)
    \/ \E a \in DOMAIN CycleFutures, p \in DOMAIN CyclePositions,
          failure \in CycleFailures, fault \in ProcessingFaults \cup {NoFailure} :
          UpdateDataAndSort(CycleFutures[a], CyclePositions[p], MarkAnswers[2], failure, fault)

SpecSort == Init /\ [][NextSort]_vars

\* ---- app6.py: the chart callback on the page, with the period buttons ----
\* update_graph, run because button_id changed: a period button was clicked, or
\* the refresh interval fired; only a click changes what the user selected
UpdateGraphOnPage(button_id) ==
    /\ figure' = update_graph6(rows, utc, datetime_now, PeriodOf6(button_id))
    /\ req' = PeriodOf6(button_id)
    /\ selected' = IF button_id \in DOMAIN period_map6 THEN button_id ELSE selected
    /\ response' = [trigger |-> button_id]
    /\ op' = "update_graph"
    /\ history' = <<>>
    /\ added' = FALSE
    /\ UNCHANGED <<rows, utc, offset, justSaved>>
    /\ UNCHANGED <<raised, logged, cards, pending, result>>
    /\ UNCHANGED concVars
    /\ UNCHANGED <<procVars, sort_store, clicks, saves>>

NextPage ==
    \/ \E in \in SaveInputs : save_balance(in[1], in[2])
    \/ Tick
    \/ \E b \in DOMAIN period_map6 \cup {"interval-component"} : UpdateGraphOnPage(b)

SpecPage == Init /\ [][NextPage]_vars

\* ==== properties ====
Occurrences(seq, x) == Cardinality({k \in DOMAIN seq : seq[k] = x})

\* the window the lookback names on the clock that stamped the rows (datetime.now())
LocalWindow(days) == {i \in Ids(rows) : rows[i].timestamp >= datetime_now - days * DayLen}

\* C1: get_balance_history(N) returns exactly the snapshots whose stored
\* timestamp is >= now - N days, now being read on the clock that stamped the
\* rows: none inside the window is omitted, none outside it is returned.
C1_ExactWindow ==
    op = "get_balance_history" =>
        /\ Len(history) = Cardinality(LocalWindow(req))
        /\ Range(HistoryIds(rows, utc, req)) = LocalWindow(req)

\* C2: a get_balance_history(N) that immediately follows a save_balance
\* contains the saved snapshot exactly once, for every lookback N.
C2_RoundTrip ==
    (op = "get_balance_history" /\ justSaved # 0) =>
        LET ids == HistoryIds(rows, utc, req)
        IN  /\ Occurrences(ids, justSaved) = 1
            /\ Len(history) = Len(ids)
            /\ \A k \in DOMAIN ids :
                  ids[k] = justSaved =>
                      /\ history[k].spot_balance = rows[justSaved].spot_balance
                      /\ history[k].futures_balance = rows[justSaved].futures_balance
                      /\ history[k].date = DateOf(datetime_now)

C2_Witness ==
    /\ op = "get_balance_history"
    /\ justSaved = 2
    /\ offset = -1
    /\ req = 1
    /\ Len(history) = 1

\* C3: N concurrent save_balance calls add exactly N rows: once no call is in
\* flight the table holds one row per call, and while calls are in flight it
\* holds one row per call that has written; every written row is still there.
C3_OneRowPerCall ==
    /\ Len(rows) = calls - Cardinality({w \in Writers : pc[w] \in {"execute", "locked"}})
    /\ \A w \in Writers :
          pc[w] = "written" =>
              /\ local[w].id \in Ids(rows)
              /\ rows[local[w].id] = local[w].row

\* C4: every row of balance_history has total_balance = spot_balance +
\* futures_balance, whether save_balance or the importer inserted it.
C4_TotalIsSum ==
    \A i \in Ids(rows) :
        rows[i].total_balance = rows[i].spot_balance + rows[i].futures_balance

C4_Witness ==
    /\ op = "add_historical_data"
    /\ added
    /\ Len(rows) = 2
    /\ rows[1].spot_balance > 0
    /\ rows[1].futures_balance > 0

\* C5: every record get_balance_history returns has the four fields date,
\* spot_balance, futures_balance and total_balance, with total_balance =
\* spot_balance + futures_balance.
C5_FourFields ==
    op = "get_balance_history" =>
        \A k \in DOMAIN history :
            /\ DOMAIN history[k] = {"date", "spot_balance", "futures_balance", "total_balance"}
            /\ history[k].total_balance = history[k].spot_balance + history[k].futures_balance

\* C6: get_balance_history returns its records in ascending order of stored
\* timestamp, also when id order and timestamp order differ; records with equal
\* timestamps appear in insertion order.
C6_TimestampOrder ==
    op = "get_balance_history" =>
        LET ids == HistoryIds(rows, utc, req)
        IN  /\ Len(history) = Len(ids)
            /\ \A j, k \in DOMAIN ids :
                  j < k =>
                      \/ rows[ids[j]].timestamp < rows[ids[k]].timestamp
                      \/ /\ rows[ids[j]].timestamp = rows[ids[k]].timestamp
                         /\ ids[j] < ids[k]

\* ---- the chart callbacks' input, stated on the table ----
ChartOps == {"update_graph", "update_graph_and_buttons"}
Aggregated == op \in ChartOps /\ figure.title # "KeyError"

\* rows inside the selected period: app6 asks the store, app compares the day
InPeriod(i) ==
    IF op = "update_graph"
    THEN req = None \/ rows[i].timestamp >= utc - req * DayLen
    ELSE req = None \/ DateOf(rows[i].timestamp) * DayLen >= datetime_now - req * DayLen

\* rows the store hands to the callback
Fetched == IF op = "update_graph" THEN {i \in Ids(rows) : InPeriod(i)} ELSE Ids(rows)

\* rows on or after the floor date and inside the period
Retained == {i \in Ids(rows) : DateOf(rows[i].timestamp) >= FloorDay /\ InPeriod(i)}

\* the rows the callback groups, as the code selects them
Grouped ==
    IF op = "update_graph"
    THEN Range(zero_filter(rows, Frame6(rows, Fetch6(rows, utc, req))))
    ELSE Range(zero_filter(rows, Frame(rows, HistoryIds(rows, utc, AllHistory), datetime_now, req)))

DayGroup(day) == {i \in Grouped : DateOf(rows[i].timestamp) = day}

Earliest(S) ==
    CHOOSE i \in S : \A j \in S :
        \/ rows[i].timestamp < rows[j].timestamp
        \/ rows[i].timestamp = rows[j].timestamp /\ i <= j

Latest(S) ==
    CHOOSE i \in S : \A j \in S :
        \/ rows[i].timestamp > rows[j].timestamp
        \/ rows[i].timestamp = rows[j].timestamp /\ i >= j

BalanceFields(rec) == DOMAIN rec \ {"date", "date_only"}

IsSynthetic(data) ==
    /\ Len(data) = 1
    /\ data[1].date = datetime_now
    /\ data[1].date_only = DateOf(datetime_now)
    /\ \A f \in BalanceFields(data[1]) : data[1][f] = 0

\* C7: for every day-group of the chart, min_balance and max_balance are the
\* minimum and maximum futures_balance of the day's snapshots, open_balance is
\* the balance of the day's earliest snapshot by timestamp and close_balance
\* (last_balance in app.py) that of the latest by timestamp; a day with one
\* snapshot has them all equal.
C7_DayAggregates ==
    (Aggregated /\ Retained # {}) =>
        \A k \in DOMAIN figure.data :
            LET rec == figure.data[k]
                S == DayGroup(rec.date_only)
                vals == {rows[i].futures_balance : i \in S}
            IN  /\ S # {}
                /\ rec.min_balance = MinOf(vals)
                /\ rec.max_balance = MaxOf(vals)
                /\ op = "update_graph" =>
                      /\ rec.open_balance = rows[Earliest(S)].futures_balance
                      /\ rec.close_balance = rows[Latest(S)].futures_balance
                /\ op = "update_graph_and_buttons" =>
                      rec.last_balance = rows[Latest(S)].futures_balance
                /\ Cardinality(S) = 1 =>
                      \A f \in BalanceFields(rec) : rec[f] = rec.min_balance

\* C8: a day whose snapshots all have futures_balance 0 keeps its day-group
\* and is reported with min = max = open = close = 0, whatever the balances of
\* the other days.
C8_ZeroDayKept ==
    Aggregated =>
        \A i \in Retained :
            LET day == DateOf(rows[i].timestamp)
            IN  (\A j \in Retained :
                    DateOf(rows[j].timestamp) = day => rows[j].futures_balance = 0)
                => \E k \in DOMAIN figure.data :
                      /\ figure.data[k].date_only = day
                      /\ \A f \in BalanceFields(figure.data[k]) : figure.data[k][f] = 0

\* C9 as stated: when the aggregation is left with no day-group (the store
\* returned no rows, or the floor-date or period filter removed them all) its
\* output is exactly one synthetic record dated now with all balances 0.
C9_NeverEmpty ==
    (Aggregated /\ Retained = {}) => IsSynthetic(figure.data)

\* C9 amended: update_graph (app6.py) outputs exactly one synthetic record
\* dated now with all balances 0 when the store returned rows and the floor
\* date removed them all; when the store returned no rows it returns the empty
\* "no data" figure, and update_graph_and_buttons (app.py) returns the empty
\* "No data" figure whenever no row is left.
C9_SyntheticAfterFloorOnly ==
    /\ op = "update_graph" =>
          /\ Fetched = {} => figure = [title |-> "No data", data |-> <<>>]
          /\ (Fetched # {} /\ Retained = {}) =>
                figure.title = "Balance" /\ IsSynthetic(figure.data)
          /\ Retained # {} =>
                /\ figure.data # <<>>
                /\ \A k \in DOMAIN figure.data :
                      figure.data[k].date_only \in {DateOf(rows[i].timestamp) : i \in Retained}
    /\ (op = "update_graph_and_buttons" /\ figure.title # "KeyError") =>
          /\ Retained = {} => figure = [title |-> "No data", data |-> <<>>]
          /\ Retained # {} => figure.data # <<>>

C9_Witness ==
    /\ op = "update_graph"
    /\ Fetched # {}
    /\ Retained = {}
    /\ figure.title = "Balance"
    /\ IsSynthetic(figure.data)

\* C10: the chart aggregation excludes every snapshot dated before the floor
\* date and keeps every snapshot dated on or after it that passes the period
\* filter, for every period selection including "all"; the result is the same
\* whether the floor filter runs before or after the period filter.
C10_FloorFilter ==
    /\ op = "update_graph" =>
          LET df == Fetch6(rows, utc, req)
              days == IF req = None THEN AllHistory ELSE req
          IN  /\ Range(Frame6(rows, df)) = Retained
              /\ Frame6(rows, df) =
                    SortByDay(rows, FilterIds(floor_filter(rows, IdSeq(Len(rows))),
                                              InWindow(rows, utc, days)))
    /\ (op = "update_graph_and_buttons" /\ figure.title # "KeyError") =>
          LET df == SortByDay(rows, HistoryIds(rows, utc, AllHistory))
          IN  /\ Range(Frame(rows, df, datetime_now, req)) = Retained
              /\ Frame(rows, df, datetime_now, req) =
                    floor_filter(rows, period_filter(rows, df, datetime_now, req))
    /\ (Aggregated /\ Retained # {}) =>
          /\ \A k \in DOMAIN figure.data :
                /\ figure.data[k].date_only >= FloorDay
                /\ figure.data[k].date_only \in {DateOf(rows[i].timestamp) : i \in Retained}
          /\ \A i \in Retained :
                rows[i].futures_balance > 0 =>
                    \E k \in DOMAIN figure.data :
                        /\ figure.data[k].date_only = DateOf(rows[i].timestamp)
                        /\ figure.data[k].min_balance <= rows[i].futures_balance
                        /\ figure.data[k].max_balance >= rows[i].futures_balance

C10_Witness ==
    /\ Aggregated
    /\ req = None
    /\ Len(rows) = 2
    /\ DateOf(rows[1].timestamp) < FloorDay
    /\ rows[1].futures_balance > 0
    /\ DateOf(rows[2].timestamp) = FloorDay
    /\ Len(figure.data) = 1
    /\ figure.data[1].date_only = FloorDay

\* C11: get_balance_history on a store with no rows, or with no row whose
\* timestamp reaches the cutoff of the lookback, returns an empty sequence and
\* raises no error.
C11_EmptyResult ==
    (op = "get_balance_history" /\ \A i \in Ids(rows) : rows[i].timestamp < utc - req * DayLen) =>
        /\ history = <<>>
        /\ raised = ""

C11_Witness ==
    /\ op = "get_balance_history"
    /\ rows # <<>>
    /\ \A i \in Ids(rows) : rows[i].timestamp < utc - req * DayLen
    /\ history = <<>>
    /\ raised = ""

\* C12: whenever the storage layer fails during a read (lock timeout, disk
\* error, corruption, closed connection), get_balance_history returns an empty
\* sequence and no exception reaches its caller.
C12_ReadFailureContained ==
    (op = "get_balance_history" /\ response.failure # NoFailure) =>
        /\ raised = ""
        /\ history = <<>>

\* C13: whenever the storage layer fails during a write (lock timeout, disk
\* error, closed connection), save_balance logs the failure, returns with no
\* exception reaching its caller, and leaves the table exactly as it was.
C13_WriteFailureContained ==
    [][(op' = "save_balance" /\ response'.failure # NoFailure) =>
          /\ raised' = ""
          /\ logged' = "Error saving balances"
          /\ rows' = rows]_vars

C13_Witness ==
    /\ op = "save_balance"
    /\ response.failure = "lock timeout"
    /\ raised = ""
    /\ logged = "Error saving balances"
    /\ Len(rows) = 1

\* C14: the snapshot log is append-only: across every step of the store, the
\* chart callbacks and the importer, the table never loses a row and every row
\* keeps the values it was inserted with.
C14_AppendOnly ==
    [][/\ Len(rows') >= Len(rows)
       /\ \A i \in Ids(rows) : rows'[i] = rows[i]]_vars

C14_Witness ==
    /\ op = "add_historical_data"
    /\ ~added
    /\ Len(rows) = 2
    /\ rows[1].spot_balance > 0
    /\ DateOf(rows[1].timestamp) = req
    /\ DateOf(rows[2].timestamp) = req

\* the writers between taking the write lock and committing
Writing == {w \in Writers : pc[w] \in {"locked", "written"}}

\* the rows of INSERTs that have not committed yet
Uncommitted == {local[w].id : w \in {v \in Writers : pc[v] = "written"}}

\* C15: writes are linearized: at most one INSERT is between taking the write
\* lock and its commit, and it writes the row after the last committed one; a
\* get_balance_history that runs while an INSERT is in progress reads, when its
\* SELECT executes, the history of the table before that INSERT or of the table
\* after it, never a partially written row, and that is what it returns.
C15_Linearized ==
    /\ [](/\ Cardinality(Writing) <= 1
          /\ \A w \in Writers : pc[w] = "written" => local[w].id = Len(rows))
    /\ [][\A w \in Writers :
             (reading[w].at = "idle" /\ reading'[w].at = "executed") =>
                 \E n \in {Len(rows) - Cardinality(Uncommitted), Len(rows)} :
                     reading'[w].df =
                         get_balance_history(SubSeq(rows, 1, n), utc, reading'[w].days)]_vars
    /\ [][\A w \in Writers :
             (reading[w].at = "executed" /\ reading'[w].at = "idle") =>
                 /\ history' = reading[w].df
                 /\ req' = reading[w].days
                 /\ raised' = ""]_vars

C15_Witness ==
    /\ op = "get_balance_history"
    /\ \E w \in Writers : pc[w] = "written" /\ local[w].row.futures_balance > 0
    /\ Len(rows) = 2
    /\ history = get_balance_history(SubSeq(rows, 1, 1), utc, req)

\* C16: every firing of the refresh interval triggers one cycle that completes:
\* the data callback fetches and stores a snapshot, and the chart callback
\* returns a re-rendered figure with the period-button classes, neither raising.
C16_RefreshCompletes ==
    /\ (op = "update_data_and_sort" /\ response.failure = NoFailure
                                    /\ response.fault = NoFailure) =>
          /\ raised = ""
          /\ rows # <<>>
          /\ rows[Len(rows)].futures_balance = cards.futures_total
    /\ (op = "update_graph_and_buttons" /\ response.trigger = "interval-component") =>
          /\ raised = ""
          /\ figure.title \in {"Balance", "No data", "Error"}

\* an exchange call of the cycle failed
ExchangeFailed ==
    \/ response.futures_account.error # ""
    \/ response.positions.error # ""
    \/ response.marks.error # ""

\* C17: whenever an upstream call fails during a cycle (an exchange call, or the
\* store read), what the page shows for that cycle is a labeled "no data" or
\* "error" state, never a chart or a balance built from default or zero values.
C17_FailureIsLabeled ==
    /\ (op = "update_data_and_sort" /\ ExchangeFailed) => cards.label = "Error"
    /\ (op = "update_graph_and_buttons" /\ raised = "" /\ response.failure # NoFailure) =>
          figure.title \in {"No data", "Error"}

\* ---- the exchange client's input, stated on what the exchange answered ----
ApiOps == {"get_current_balance", "get_futures_balance", "get_futures_positions"}

\* an API call of the method raised
CallRaised ==
    \/ op = "get_current_balance" /\ response.account.error # ""
    \/ op = "get_futures_balance" /\ response.futures_account.error # ""
    \/ op = "get_futures_positions" /\
          (response.positions.error # "" \/ response.marks.error # "")

Numeric(d, key) == key \notin DOMAIN d \/ IsFloat(d[key])

\* a position entry that cannot be read: a field that is no number, or no symbol
BadPosition(pos) ==
    \/ ~Numeric(pos, "positionAmt")
    \/ /\ "positionAmt" \in DOMAIN pos
       /\ float(pos.positionAmt) # 0
       /\ \/ "symbol" \notin DOMAIN pos
          \/ ~Numeric(pos, "entryPrice")
          \/ ~Numeric(pos, "leverage")
          \/ ~Numeric(pos, "unRealizedProfit")

\* a position entry with a non-zero amount and every field readable
OpenPosition(pos) ==
    /\ ~BadPosition(pos)
    /\ "positionAmt" \in DOMAIN pos
    /\ float(pos.positionAmt) # 0

\* the answer cannot be parsed as a whole
BadAnswer ==
    \/ /\ op = "get_current_balance"
       /\ \/ "balances" \notin DOMAIN response.account.body
          \/ \E k \in DOMAIN response.account.body.balances :
                LET b == response.account.body.balances[k]
                IN  \/ "free" \notin DOMAIN b \/ "locked" \notin DOMAIN b
                    \/ ~IsFloat(b.free) \/ ~IsFloat(b.locked)
                    \/ (float(b.free) > 0 \/ float(b.locked) > 0) /\ "asset" \notin DOMAIN b
    \/ /\ op = "get_futures_balance"
       /\ \E k \in DOMAIN response.futures_account.body :
             LET b == response.futures_account.body[k]
             IN  /\ \A j \in 1..(k - 1) :
                       /\ "asset" \in DOMAIN response.futures_account.body[j]
                       /\ response.futures_account.body[j].asset # "USDT"
                 /\ \/ "asset" \notin DOMAIN b
                    \/ b.asset = "USDT" /\ (~Numeric(b, "balance") \/ ~Numeric(b, "withdrawAvailable"))
    \/ /\ op = "get_futures_positions"
       /\ \E k \in DOMAIN response.marks.body :
             \/ "symbol" \notin DOMAIN response.marks.body[k]
             \/ "markPrice" \notin DOMAIN response.marks.body[k]
             \/ ~IsFloat(response.marks.body[k].markPrice)

\* a single position of the answer cannot be parsed
BadEntry ==
    /\ op = "get_futures_positions"
    /\ \E k \in DOMAIN response.positions.body : BadPosition(response.positions.body[k])

\* C18 as stated: no public method of the exchange client lets an exception
\* reach its caller, and on any failure of the underlying API call or of
\* parsing its response the method returns an empty sequence.
C18_EmptyOnAnyFailure ==
    op \in ApiOps =>
        /\ raised = ""
        /\ (CallRaised \/ (~CallRaised /\ (BadAnswer \/ BadEntry))) => result = <<>>

\* C18 amended: no public method of the exchange client lets an exception
\* reach its caller; when the API call raises or its answer cannot be parsed
\* as a whole the method returns an empty sequence, while get_futures_positions
\* only leaves out a position it cannot parse (ValueError, KeyError) and
\* returns the other open positions.
C18_NoExceptionEscapes ==
    op \in ApiOps =>
        /\ raised = ""
        /\ (CallRaised \/ (~CallRaised /\ BadAnswer)) => result = <<>>
        /\ (~CallRaised /\ ~BadAnswer /\ BadEntry) =>
              Len(result) = Cardinality({k \in DOMAIN response.positions.body :
                                            OpenPosition(response.positions.body[k])})

C18_Witness ==
    /\ op = "get_futures_positions"
    /\ ~CallRaised
    /\ ~BadAnswer
    /\ Len(response.positions.body) = 2
    /\ BadPosition(response.positions.body[1])
    /\ OpenPosition(response.positions.body[2])
    /\ Len(result) = 1
    /\ raised = ""

\* C19: get_futures_positions returns exactly the positions whose amount is
\* non-zero: every returned entry has positionAmt # 0, and when the calls
\* succeed every well-formed position with a non-zero amount is returned, in
\* the order of the answer, and nothing else.
C19_NonZeroPositions ==
    op = "get_futures_positions" =>
        /\ \A j \in DOMAIN result : result[j].positionAmt # 0
        /\ (~CallRaised /\ ~BadAnswer) =>
              LET body == response.positions.body
                  open == FilterIds(IdSeq(Len(body)), {k \in DOMAIN body : OpenPosition(body[k])})
              IN  /\ Len(result) = Len(open)
                  /\ \A j \in DOMAIN open :
                        /\ result[j].symbol = body[open[j]].symbol
                        /\ result[j].positionAmt = float(body[open[j]].positionAmt)

C19_Witness ==
    /\ op = "get_futures_positions"
    /\ ~CallRaised
    /\ ~BadAnswer
    /\ Len(response.positions.body) = 2
    /\ "positionAmt" \in DOMAIN response.positions.body[1]
    /\ response.positions.body[1].positionAmt = "0.000"
    /\ OpenPosition(response.positions.body[2])
    /\ Len(result) = 1
    /\ result[1].positionAmt < 0

\* C20: every position get_futures_positions returns has usdtValue =
\* abs(amount) * markPrice and roe = unrealized / (abs(amount) * entryPrice) *
\* 100; roe is 0 when the entry price or the amount is 0, and no divisor is 0.
C20_ValueAndRoe ==
    op = "get_futures_positions" =>
        \A j \in DOMAIN result :
            LET p == result[j]
                size == IF p.positionAmt < 0 THEN 0 - p.positionAmt ELSE p.positionAmt
            IN  /\ p.usdtValue = size * p.markPrice
                /\ p.usdtValue >= 0
                /\ p.roe.den # 0
                /\ IF p.entryPrice = 0 \/ p.positionAmt = 0
                   THEN p.roe.num = 0
                   ELSE p.roe.num * (size * p.entryPrice) = p.unRealizedProfit * 100 * p.roe.den

C20_Witness ==
    /\ op = "get_futures_positions"
    /\ Len(result) = 2
    /\ result[1].positionAmt < 0
    /\ result[1].usdtValue > 0
    /\ result[1].roe.num < 0
    /\ result[2].entryPrice = 0
    /\ result[2].roe = Zero

\* C21: close() is idempotent and never raises: called once, called again on a
\* closed connection, or called on a store whose connection was never opened,
\* it returns normally and leaves the store without an open connection, and a
\* further call changes nothing.
C21_CloseIdempotent ==
    op = "close" =>
        /\ raised = ""
        /\ conn # "open"
        /\ close(conn).error = ""
        /\ close(conn).body = conn

\* close() has been called a second time, on a connection already closed
C21_Witness == op = "close" /\ closes >= 2 /\ conn = "closed"

\* C22: the store connection is opened once, at process start, and
\* balance_storage.close() is called exactly once, at shutdown, whichever way
\* the server run ends.
C22_OpenOnceCloseOnce ==
    /\ opens <= 1
    /\ closes <= 1
    /\ closes = 1 <=> main.at = "exited"
    /\ main.at = "exited" => opens = 1

\* the rows that reach the zero filter and the grouping, as the code selects them
Framed ==
    IF op = "update_graph"
    THEN Range(Frame6(rows, Fetch6(rows, utc, req)))
    ELSE Range(Frame(rows, HistoryIds(rows, utc, AllHistory), datetime_now, req))

\* C23: with a numeric period the chart aggregation keeps every snapshot whose
\* timestamp is >= now - period_days and that is dated on or after the floor
\* date, and drops every older one; with the period "all" it drops no snapshot
\* dated on or after the floor date.
C23_PeriodWindow ==
    Aggregated =>
        Framed = {i \in Ids(rows) :
                     /\ DateOf(rows[i].timestamp) >= FloorDay
                     /\ req = None \/ rows[i].timestamp >= datetime_now - req * DayLen}

\* C24: the chart aggregation outputs exactly one record per calendar day that
\* has a retained snapshot, no two records share a date, the records are in
\* strictly ascending date order, and each record carries the fields date,
\* min_balance, max_balance, open_balance and close_balance.
C24_OneRecordPerDay ==
    (Aggregated /\ Framed # {}) =>
        /\ {figure.data[k].date_only : k \in DOMAIN figure.data} =
              {DateOf(rows[i].timestamp) : i \in Framed}
        /\ \A j, k \in DOMAIN figure.data :
              j < k => figure.data[j].date < figure.data[k].date
        /\ \A k \in DOMAIN figure.data :
              {"date", "min_balance", "max_balance", "open_balance", "close_balance"}
                  \subseteq DOMAIN figure.data[k]

\* C25: each invocation of get_futures_data calls save_balance at most once and
\* always with spot_total = 0; an invocation that returns an error result has
\* called it not at all and has written no snapshot; an invocation that returns
\* data has called it exactly once, with the total it computed, after the
\* balance and the positions were fetched and processed.
C25_SaveOnceAfterProcessing ==
    /\ [](op = "update_data_and_sort" =>
            /\ Len(saves) <= 1
            /\ \A k \in DOMAIN saves : saves[k][1] = 0
            /\ cards.label = "Error" => saves = <<>>
            /\ cards.label # "Error" => saves = << <<0, cards.futures_total>> >>)
    /\ [][op' = "update_data_and_sort" =>
            IF cards'.label = "Error" THEN rows' = rows
            ELSE /\ Len(rows') <= Len(rows) + 1
                 /\ response'.failure = NoFailure =>
                       rows' = Append(rows, NewRow(datetime_now, 0, cards'.futures_total))]_vars

\* an invocation returned data with an open position and stored its one snapshot
C25_Witness ==
    /\ op = "update_data_and_sort"
    /\ cards.label = "USDT"
    /\ cards.positions_count > 0
    /\ cards.futures_total > 0
    /\ saves = << <<0, cards.futures_total>> >>
    /\ rows # <<>>
    /\ rows[Len(rows)] = NewRow(datetime_now, 0, cards.futures_total)

\* C26: toggle_sort_field is a three-state cycle: from the initial state
\* {field: size_usdt, order: desc} every header click moves the field
\* size_usdt -> unRealizedProfit -> roe -> size_usdt and keeps the order
\* 'desc', a call with n_clicks = None leaves the state unchanged; after any
\* number of clicks the field is one of the three, and three consecutive clicks
\* restore the state.
C26_ThreeStateCycle ==
    LET n == IF clicks = None THEN 0 ELSE clicks
        after == toggle_sort_field(1, sort_store)
    IN  /\ sort_store.field \in {"size_usdt", "unRealizedProfit", "roe"}
        /\ sort_store.order = "desc"
        /\ sort_store.field =
              CASE n % 3 = 0 -> "size_usdt"
                [] n % 3 = 1 -> "unRealizedProfit"
                [] n % 3 = 2 -> "roe"
        /\ after.order = "desc"
        /\ after.field =
              CASE sort_store.field = "size_usdt" -> "unRealizedProfit"
                [] sort_store.field = "unRealizedProfit" -> "roe"
                [] sort_store.field = "roe" -> "size_usdt"
        /\ toggle_sort_field(None, sort_store) = sort_store
        /\ toggle_sort_field(1, toggle_sort_field(1, after)) = sort_store

\* the third click has brought the sort state back to the initial one
C26_Witness ==
    /\ op = "toggle_sort_field"
    /\ clicks = 3
    /\ sort_store = [field |-> "size_usdt", order |-> "desc"]

\* C27: a snapshot the data callback has written is part of what every later
\* chart refresh reads from the store (the chart callback asks for the whole
\* history, so its window covers every snapshot), whichever of the two
\* callbacks ran first within a tick; only a chart refresh that ran before the
\* write may miss it. When the data callback of the current tick is still
\* pending, every row of the table was written in an earlier tick.
C27_WrittenIsRead ==
    (/\ op = "update_graph_and_buttons"
     /\ response.failure = NoFailure
     /\ response.trigger = "interval-component" => "update_data_and_sort" \in pending) =>
        /\ Len(history) = Len(rows)
        /\ \A i \in Ids(rows) :
              \E k \in DOMAIN history :
                  /\ history[k].futures_balance = rows[i].futures_balance
                  /\ history[k].date = DateOf(rows[i].timestamp)

\* the retained snapshots of a day that have a positive futures balance
PositiveOfDay(day) ==
    {i \in Framed : DateOf(rows[i].timestamp) = day /\ rows[i].futures_balance > 0}

\* C28: in the chart aggregation, for a day that has at least one snapshot with
\* futures_balance > 0, no snapshot with futures_balance <= 0 contributes to
\* the day's min_balance, max_balance or close value: they are the minimum, the
\* maximum and one of the day's positive balances.
C28_ZerosDoNotContribute ==
    Aggregated =>
        \A k \in DOMAIN figure.data :
            LET rec == figure.data[k]
                vals == {rows[i].futures_balance : i \in PositiveOfDay(rec.date_only)}
            IN  vals # {} =>
                    /\ rec.min_balance = MinOf(vals)
                    /\ rec.max_balance = MaxOf(vals)
                    /\ \A f \in BalanceFields(rec) : rec[f] \in vals

\* a day with a zero snapshot and a positive one has been charted
C28_Witness ==
    /\ Aggregated
    /\ Len(figure.data) = 1
    /\ figure.data[1].min_balance > 0
    /\ \E i, j \in Framed :
          /\ DateOf(rows[i].timestamp) = figure.data[1].date_only
          /\ DateOf(rows[j].timestamp) = figure.data[1].date_only
          /\ rows[i].futures_balance = 0
          /\ rows[j].futures_balance > 0

\* C29: add_historical_data(date, ...) inserts a row if and only if no row of
\* balance_history has the same calendar date at the time of the call, and
\* returns True exactly when it inserted; so a second import over the same data
\* adds no row, and the importer never adds a second row to a date that has one.
C29_InsertIffDateIsNew ==
    [][op' = "add_historical_data" =>
          IF \E i \in Ids(rows) : DateOf(rows[i].timestamp) = req'
          THEN rows' = rows /\ ~added'
          ELSE /\ added'
               /\ Len(rows') = Len(rows) + 1
               /\ SubSeq(rows', 1, Len(rows)) = rows
               /\ DateOf(rows'[Len(rows')].timestamp) = req']_vars

\* C30: in update_graph (app6.py, app7.py) the period used to render the chart
\* on a refresh-interval tick is the period of the most recently clicked period
\* button, 30 days if no button was ever clicked: an automatic refresh never
\* changes the selected period.
C30_IntervalKeepsPeriod ==
    (op = "update_graph" /\ response.trigger = "interval-component") =>
        LET period_days == IF selected = "" THEN ShortPeriod ELSE period_map6[selected]
        IN  /\ req = period_days
            /\ figure = update_graph6(rows, utc, datetime_now, period_days)

====
